---- MODULE Spec2Model ----
(***************************************************************************)
(* Model of the mbed BLE GAP scanner sketch: the GapDemo scan controller   *)
(* (run, on_init_complete, scan, onAdvertisingReport, onScanTimeout), the  *)
(* event queue that serialises its handlers, the BLE host stack as the     *)
(* environment, and the advertising data parser the report handler drives. *)
(* Indices into a payload are 0-based as in the source; TLA+ sequences are *)
(* 1-based, so byte i of a payload p is p[i + 1].                          *)
(***************************************************************************)
EXTENDS Integers, Sequences, FiniteSets, TLC

\* ---------------------------------------------------------------- bounds
MaxLen == 5
MaxValueLen == 4
MaxTimeouts == 2
MaxReports == 2
MaxConnections == 1

\* ------------------------------------------------------ program constants
\* adv_data_type_t tags the report handler compares field.type with
FLAGS == 1
INCOMPLETE_LIST_16BIT_SERVICE_IDS == 2
COMPLETE_LIST_16BIT_SERVICE_IDS == 3
INCOMPLETE_LIST_32BIT_SERVICE_IDS == 4
COMPLETE_LIST_32BIT_SERVICE_IDS == 5
INCOMPLETE_LIST_128BIT_SERVICE_IDS == 6
COMPLETE_LIST_128BIT_SERVICE_IDS == 7
SHORTENED_LOCAL_NAME == 8
COMPLETE_LOCAL_NAME == 9
TX_POWER_LEVEL == 10
DEVICE_ID == 16
SLAVE_CONNECTION_INTERVAL_RANGE == 18
LIST_16BIT_SOLICITATION_IDS == 20
LIST_128BIT_SOLICITATION_IDS == 21
SERVICE_DATA == 22
SERVICE_DATA_128BIT_ID == 33
APPEARANCE == 25
ADVERTISING_INTERVAL == 26
MANUFACTURER_SPECIFIC_DATA == 255
\* adv_data_flags_t bits
LE_LIMITED_DISCOVERABLE == 1
LE_GENERAL_DISCOVERABLE == 2
BREDR_NOT_SUPPORTED == 4
SIMULTANEOUS_LE_BREDR_C == 8
SIMULTANEOUS_LE_BREDR_H == 16
\* char localname[128]
NameBufSize == 128
\* the largest value of the one-byte length prefix of a record
MaxLengthByte == (2 ^ 8) - 1

\* the bytes the enumerated payloads are built from: the lengths 0..3 and
\* the tags above that double as lengths
PayloadBytes == {0, 1, 2, 3, COMPLETE_LOCAL_NAME, TX_POWER_LEVEL}

\* all payloads of at most MaxLen bytes over PayloadBytes
SmallPayloads == UNION {[1..n -> PayloadBytes] : n \in 0..MaxLen}

\* 02 01 06 05 09 44 65 6D 6F : flags, then complete local name "Demo"
DemoPayload == <<2, 1, 6, 5, 9, 68, 101, 109, 111>>

\* one name record  L, tag, L-1 letters 'D'  for a length byte L
NamePayload(L, tag) == <<L, tag>> \o [i \in 1..(L - 1) |-> 68]

\* one name record per length byte and name tag
NamePayloads ==
    {NamePayload(L, tag) : L \in 1..MaxLengthByte,
        tag \in {SHORTENED_LOCAL_NAME, COMPLETE_LOCAL_NAME}}

\* a name record whose value is larger than the local buffer
LongNamePayload == NamePayload(NameBufSize + 2, COMPLETE_LOCAL_NAME)

\* the tags the if / else-if chain of the report handler tests
RecognizedTypes ==
    {FLAGS, INCOMPLETE_LIST_16BIT_SERVICE_IDS, COMPLETE_LIST_16BIT_SERVICE_IDS,
     INCOMPLETE_LIST_32BIT_SERVICE_IDS, COMPLETE_LIST_32BIT_SERVICE_IDS,
     INCOMPLETE_LIST_128BIT_SERVICE_IDS, COMPLETE_LIST_128BIT_SERVICE_IDS,
     SHORTENED_LOCAL_NAME, COMPLETE_LOCAL_NAME, TX_POWER_LEVEL, DEVICE_ID,
     SLAVE_CONNECTION_INTERVAL_RANGE, LIST_16BIT_SOLICITATION_IDS,
     LIST_128BIT_SOLICITATION_IDS, SERVICE_DATA, SERVICE_DATA_128BIT_ID,
     APPEARANCE, ADVERTISING_INTERVAL, MANUFACTURER_SPECIFIC_DATA}

\* the tags of the enumerated single-field payloads: every tag the chain
\* tests and two it does not
FieldTypes == RecognizedTypes \cup {0, 27}

\* the values of the enumerated single-field payloads
FieldValues == UNION {[1..n -> {1, 2}] : n \in 0..MaxValueLen}

\* a flags record for every value byte, one record of every tag with every
\* value, and two records with empty values for every pair of tags
FieldPayloads ==
    {<<2, FLAGS, b>> : b \in 0..MaxLengthByte}
        \cup {<<Len(v) + 1, t>> \o v : t \in FieldTypes, v \in FieldValues}
        \cup {<<1, t1, 1, t2>> : t1 \in FieldTypes, t2 \in FieldTypes}

\* the payloads the host stack reports while the controller is scanning
AdvPayloads == {<<>>, DemoPayload, <<2, 1, 6, 5, 9, 68>>, <<2, 1, 6, 0, 9>>,
                LongNamePayload}

\* ------------------------------------------- ble::ScanParameters applied
\* parameters whose 1M scan window is longer than the scan interval
ScanParams_wideWindow ==
    [phy1m |-> TRUE, phyCoded |-> TRUE,
     coded |-> [interval |-> 80, window |-> 60, active |-> FALSE],
     oneM |-> [interval |-> 40, window |-> 100, active |-> FALSE]]

\* the parameters scan() builds and passes to setScanParameters
ScanParams ==
    [phy1m |-> TRUE, phyCoded |-> TRUE,
     coded |-> [interval |-> 80, window |-> 60, active |-> FALSE],
     oneM |-> [interval |-> 100, window |-> 40, active |-> FALSE]]

\* the file-scope scan_params: constructed for the coded PHY, so its 1M
\* configuration is the default one (the shortest interval and window)
scan_params ==
    [phy1m |-> FALSE, phyCoded |-> TRUE,
     coded |-> [interval |-> 80, window |-> 60, active |-> FALSE],
     oneM |-> [interval |-> 4, window |-> 4, active |-> FALSE]]

\* microseconds per unit of scan_interval_t and scan_window_t
TimeBase == 625

\* Duration::valueInMs: whole milliseconds of a duration in units
valueInMs(d) == (d * TimeBase) \div 1000

\* printf("Scanning started (interval: %dms, window: %dms)", ...) with the
\* 1M configuration of scan_params
StartedLine ==
    [l |-> "Scanning started",
     a |-> <<valueInMs(scan_params.oneM.interval),
             valueInMs(scan_params.oneM.window)>>]

NoParams ==
    [phy1m |-> FALSE, phyCoded |-> FALSE,
     coded |-> [interval |-> 0, window |-> 0, active |-> FALSE],
     oneM |-> [interval |-> 0, window |-> 0, active |-> FALSE]]

\* ------------------------------------------------------------- state
VARIABLES
    phase,       \* "constructed" | "dispatching" | "returned" | "crashed"
    hostInit,    \* host stack initialisation: "idle" | "pending" | "done"
    scanActive,  \* the host stack is scanning
    queue,       \* event_queue: work items not yet dispatched
    running,     \* the work item whose handler is in progress, or Idle
    pc,          \* position inside onAdvertisingReport: "entry" | "loop"
    cmds,        \* commands issued to the host stack, with their results
    out,         \* lines printed
    adv_parser,  \* ble::AdvertisingDataParser: [data, position]
    fields,      \* the values `field` has taken in the current parse loop
    reads,       \* payload indices the parser has read
    localname,   \* the last use of char localname[128]
    raised       \* events the host stack has raised:
                 \* [adv, timeout, conn, disconn]

vars == <<phase, hostInit, scanActive, queue, running, pc, cmds, out,
          adv_parser, fields, reads, localname, raised>>

\* ------------------------------------------------------ work items
Item(fn, ev, error, payload) ==
    [fn |-> fn, ev |-> ev, error |-> error, payload |-> payload]

Idle == Item("idle", "none", FALSE, <<>>)
ScanItem == Item("scan", "none", FALSE, <<>>)
InitCompleteItem(error) == Item("processEvents", "init_complete", error, <<>>)
AdvItem(payload) == Item("processEvents", "adv", FALSE, payload)
TimeoutItem == Item("processEvents", "timeout", FALSE, <<>>)
ConnectionItem == Item("processEvents", "connection", FALSE, <<>>)
DisconnectionItem == Item("processEvents", "disconnection", FALSE, <<>>)

Cmd(c, ok, params) == [c |-> c, ok |-> ok, params |-> params]
Line(l, a) == [l |-> l, a |-> a]

\* ------------------------------------------- advertising data parser
\* what a read of memory outside the payload buffer can return
GarbageBytes == {0, 255}

\* byte i of the buffer; outside the buffer the read returns garbage g
ByteAt(data, i, g) == IF i >= 0 /\ i < Len(data) THEN data[i + 1] ELSE g

\* the length byte at the cursor; only read with the cursor inside the buffer
current_length(p) == p.data[p.position + 1]

\* hasNext that lets a record end one byte past the buffer
hasNext_offByOne(p) ==
    IF p.position >= Len(p.data) THEN FALSE
    ELSE IF current_length(p) = 0 THEN FALSE
    ELSE IF p.position + current_length(p) > Len(p.data) THEN FALSE
    ELSE TRUE

\* more well-formed records remain: the cursor is inside the buffer, the
\* length byte L is not 0 and cursor + 1 + L does not exceed the buffer
hasNext(p) ==
    IF p.position >= Len(p.data) THEN FALSE
    ELSE IF current_length(p) = 0 THEN FALSE
    ELSE IF p.position + 1 + current_length(p) > Len(p.data) THEN FALSE
    ELSE TRUE

\* the indices hasNext reads
hasNextReads(p) ==
    IF p.position >= Len(p.data) THEN {} ELSE {p.position}

\* the field at the cursor: its type byte and a view of its L - 1 value
\* bytes; undefined when hasNext is false, where the bytes may lie outside
\* the buffer
next(p, g) ==
    [type |-> ByteAt(p.data, p.position + 1, g),
     off |-> p.position + 2,
     len |-> ByteAt(p.data, p.position, g) - 1]

\* the indices next reads: the length byte and the type byte
nextReads(p) == {p.position, p.position + 1}

\* the cursor after next
advance(p, g) ==
    [data |-> p.data,
     position |-> p.position + 1 + ByteAt(p.data, p.position, g)]

\* the bytes a field's value views
Value(data, f, g) == [i \in 1..f.len |-> ByteAt(data, f.off + i - 1, g)]

\* ------------------------------------------------ field dispatch
\* field.value.data()[i]: byte i from the start of the view, whether or not
\* the view is that long
DataAt(data, f, i, g) == ByteAt(data, f.off + i, g)

BitSet(b, m) == (b \div m) % 2 = 1

\* the flags printed when the general and limited bits are taken for one
\* another
FlagNames_swapped(b) ==
    SelectSeq(<<LE_GENERAL_DISCOVERABLE, LE_LIMITED_DISCOVERABLE,
                BREDR_NOT_SUPPORTED, SIMULTANEOUS_LE_BREDR_C,
                SIMULTANEOUS_LE_BREDR_H>>,
              LAMBDA m : BitSet(b, IF m = LE_GENERAL_DISCOVERABLE
                                   THEN LE_LIMITED_DISCOVERABLE
                                   ELSE IF m = LE_LIMITED_DISCOVERABLE
                                   THEN LE_GENERAL_DISCOVERABLE ELSE m))

\* the flag names printed for a flags byte, in the order they are tested
FlagNames(b) ==
    SelectSeq(<<LE_GENERAL_DISCOVERABLE, LE_LIMITED_DISCOVERABLE,
                BREDR_NOT_SUPPORTED, SIMULTANEOUS_LE_BREDR_C,
                SIMULTANEOUS_LE_BREDR_H>>, LAMBDA m : BitSet(b, m))

\* for (int i = 0; i < size; i += 2) printf("%02x%02x", data()[1], data()[0]):
\* one pair of bytes per iteration, (size + 1) / 2 iterations
ServiceIds16(data, f, g) ==
    [k \in 1..(2 * ((f.len + 1) \div 2)) |->
        IF k % 2 = 1 THEN DataAt(data, f, 1, g) ELSE DataAt(data, f, 0, g)]

\* the bytes of s before its first 0 byte: what %s prints of a
\* terminated buffer
CStr(s) ==
    LET zeros == {i \in 1..Len(s) : s[i] = 0}
    IN  IF zeros = {} THEN s
        ELSE SubSeq(s, 1, (CHOOSE i \in zeros : \A j \in zeros : i <= j) - 1)

IsName(type) == type \in {SHORTENED_LOCAL_NAME, COMPLETE_LOCAL_NAME}

\* memset(localname, 0, 128); memcpy(localname, value.data(), value.size()):
\* the bytes memcpy writes, and whether localname[0..127] holds a 0 afterwards
NameCopy(data, f, g) ==
    [written |-> f.len,
     terminated |-> \/ f.len < NameBufSize
                    \/ \E i \in 1..NameBufSize : Value(data, f, g)[i] = 0]

\* the copy stays inside localname and printf("%s") stops inside it
NameDefined(data, f, g) ==
    /\ NameCopy(data, f, g).written <= NameBufSize
    /\ NameCopy(data, f, g).terminated

\* what the name branches can do: print the string, or, when the copy or the
\* print runs past localname, print what the buffer holds and more, or fault
NameOutcomes(data, f, g) ==
    IF NameDefined(data, f, g) THEN {"string"}
    ELSE IF NameCopy(data, f, g).written > NameBufSize
    THEN {"overrun", "fault"}
    ELSE {"overrun"}

\* the indices i at which the chain reads field.value.data()[i] for a field
ValueReads(f) ==
    CASE f.type \in {FLAGS, TX_POWER_LEVEL, APPEARANCE} -> {0}
      [] f.type \in {INCOMPLETE_LIST_16BIT_SERVICE_IDS,
                     COMPLETE_LIST_16BIT_SERVICE_IDS} ->
            IF f.len > 0 THEN {0, 1} ELSE {}
      [] IsName(f.type) -> 0..(f.len - 1)
      [] OTHER -> {}

\* the lines the if / else-if chain prints for one field; the branch for
\* SERVICE_DATA_16BIT_ID tests the tag SERVICE_DATA has already taken
FieldLines(data, f, g, outcome) ==
    CASE f.type = FLAGS ->
            <<Line("Flags", FlagNames(DataAt(data, f, 0, g)))>>
      [] f.type = INCOMPLETE_LIST_16BIT_SERVICE_IDS ->
            <<Line("Incomplete List of 16bit Service IDs",
                   ServiceIds16(data, f, g))>>
      [] f.type = COMPLETE_LIST_16BIT_SERVICE_IDS ->
            <<Line("Complete List of 16bit Service IDs",
                   ServiceIds16(data, f, g))>>
      [] f.type = INCOMPLETE_LIST_32BIT_SERVICE_IDS ->
            <<Line("Incomplete List of 32bit Service IDs", <<>>)>>
      [] f.type = COMPLETE_LIST_32BIT_SERVICE_IDS ->
            <<Line("Complete List of 32bit Service IDs", <<>>)>>
      [] f.type = INCOMPLETE_LIST_128BIT_SERVICE_IDS ->
            <<Line("Incomplete List of 128bit Service IDs", <<>>)>>
      [] f.type = COMPLETE_LIST_128BIT_SERVICE_IDS ->
            <<Line("Complete List of 128bit Service IDs", <<>>)>>
      [] IsName(f.type) ->
            IF outcome = "fault" THEN <<>>
            ELSE <<Line(IF f.type = SHORTENED_LOCAL_NAME
                        THEN "Short Name" ELSE "Complete Name",
                        IF outcome = "string" THEN CStr(Value(data, f, g))
                        ELSE SubSeq(Value(data, f, g), 1, NameBufSize)
                                \o <<g>>)>>
      [] f.type = TX_POWER_LEVEL ->
            <<Line("Advertised TX Power Level", <<DataAt(data, f, 0, g)>>)>>
      [] f.type = DEVICE_ID ->
            <<Line("Device ID", <<f.len>>)>>
      [] f.type = SLAVE_CONNECTION_INTERVAL_RANGE ->
            <<Line("Has SLAVE_CONNECTION_INTERVAL_RANGE", <<>>)>>
      [] f.type = LIST_16BIT_SOLICITATION_IDS ->
            <<Line("Has SLAVE_CONNECTION_INTERVAL_RANGE", <<>>)>>
      [] f.type = LIST_128BIT_SOLICITATION_IDS ->
            <<Line("Has LIST_128BIT_SOLICITATION_IDS", <<>>)>>
      [] f.type = SERVICE_DATA ->
            <<Line("Has service data", <<>>)>>
      [] f.type = SERVICE_DATA_128BIT_ID ->
            <<Line("Has SERVICE_DATA_128BIT_ID", <<>>)>>
      [] f.type = APPEARANCE ->
            <<Line("Appearance", <<DataAt(data, f, 0, g)>>)>>
      [] f.type = ADVERTISING_INTERVAL ->
            <<Line("Has ADVERTISING_INTERVAL", <<>>)>>
      [] f.type = MANUFACTURER_SPECIFIC_DATA ->
            <<Line("Has MANUFACTURER_SPECIFIC_DATA", <<>>)>>
      [] OTHER -> <<>>

\* ---------------------------------------------------------- controller
Init ==
    /\ phase = "constructed"
    /\ hostInit = "idle"
    /\ scanActive = FALSE
    /\ queue = <<>>
    /\ running = Idle
    /\ pc = "entry"
    /\ cmds = <<>>
    /\ out = <<>>
    /\ adv_parser = [data |-> <<>>, position |-> 0]
    /\ fields = <<>>
    /\ reads = {}
    /\ localname = [written |-> 0, terminated |-> TRUE]
    /\ raised = [adv |-> 0, timeout |-> 0, conn |-> 0, disconn |-> 0]

\* GapDemo::run: register the event handler, request initialisation, and
\* enter dispatch_forever unless the request fails
run ==
    /\ phase = "constructed"
    /\ \E error \in BOOLEAN :
         /\ cmds' = cmds \o <<Cmd("setEventHandler", TRUE, NoParams),
                               Cmd("init", ~error, NoParams)>>
         /\ IF error
            THEN /\ out' = Append(out, Line("Error returned by BLE::init", <<>>))
                 /\ phase' = "returned"
                 /\ hostInit' = hostInit
            ELSE /\ out' = out
                 /\ phase' = "dispatching"
                 /\ hostInit' = "pending"
    /\ UNCHANGED <<scanActive, queue, running, pc, adv_parser, fields, reads,
                   localname, raised>>

\* schedule_ble_events: the host stack has an event to process and the
\* processing is queued on the event queue
schedule_ble_events(item) == queue' = Append(queue, item)

\* the host stack completes the initialisation run() requested
HostInitComplete ==
    /\ phase = "dispatching"
    /\ hostInit = "pending"
    /\ hostInit' = "done"
    /\ \E error \in BOOLEAN : schedule_ble_events(InitCompleteItem(error))
    /\ UNCHANGED <<phase, scanActive, running, pc, cmds, out, adv_parser,
                   fields, reads, localname, raised>>

\* the host stack receives an advertisement while it scans
HostAdvertisingReport ==
    /\ phase = "dispatching"
    /\ scanActive
    /\ raised.adv < MaxReports
    /\ raised' = [raised EXCEPT !.adv = @ + 1]
    /\ \E payload \in AdvPayloads : schedule_ble_events(AdvItem(payload))
    /\ UNCHANGED <<phase, hostInit, scanActive, running, pc, cmds, out,
                   adv_parser, fields, reads, localname>>

\* the scan duration elapses: the host stack stops scanning and signals it
HostScanTimeout ==
    /\ phase = "dispatching"
    /\ scanActive
    /\ raised.timeout < MaxTimeouts
    /\ raised' = [raised EXCEPT !.timeout = @ + 1]
    /\ scanActive' = FALSE
    /\ schedule_ble_events(TimeoutItem)
    /\ UNCHANGED <<phase, hostInit, running, pc, cmds, out, adv_parser,
                   fields, reads, localname>>

\* a dispatch that starts the next work item while a handler is in progress
dispatch_forever_preempt ==
    /\ phase = "dispatching"
    /\ queue # <<>>
    /\ running' = Head(queue)
    /\ queue' = Tail(queue)
    /\ pc' = "entry"
    /\ UNCHANGED <<phase, hostInit, scanActive, cmds, out, adv_parser, fields,
                   reads, localname, raised>>

\* dispatch_forever: take the next work item once the previous one returned
dispatch_forever ==
    /\ phase = "dispatching"
    /\ running = Idle
    /\ queue # <<>>
    /\ running' = Head(queue)
    /\ queue' = Tail(queue)
    /\ pc' = "entry"
    /\ UNCHANGED <<phase, hostInit, scanActive, cmds, out, adv_parser, fields,
                   reads, localname, raised>>

\* on_init_complete without the return after an initialisation error
on_init_complete_noReturn ==
    /\ phase = "dispatching"
    /\ running.ev = "init_complete"
    /\ running' = Idle
    /\ \E supported \in BOOLEAN, error \in BOOLEAN :
         /\ cmds' = cmds \o <<Cmd("getAddress", TRUE, NoParams)>>
               \o (IF supported
                   THEN <<Cmd("setPreferredPhys", ~error, NoParams)>>
                   ELSE <<>>)
         /\ out' = out
               \o (IF running.error
                   THEN <<Line("Error during the initialisation", <<>>)>>
                   ELSE <<>>)
               \o <<Line("DEVICE MAC ADDRESS", <<>>)>>
               \o (IF ~supported THEN <<>>
                   ELSE IF error
                   THEN <<Line("GAP::setPreferedPhys failed", <<>>)>>
                   ELSE <<Line("Upgrade PHY to 2M", <<>>)>>)
         /\ queue' = Append(queue, ScanItem)
    /\ UNCHANGED <<phase, hostInit, scanActive, pc, adv_parser, fields, reads,
                   localname, raised>>

\* on_init_complete that returns when setPreferredPhys fails
on_init_complete_phyFatal ==
    /\ phase = "dispatching"
    /\ running.ev = "init_complete"
    /\ running' = Idle
    /\ IF running.error
       THEN /\ out' = Append(out, Line("Error during the initialisation", <<>>))
            /\ UNCHANGED <<cmds, queue>>
       ELSE \E supported \in BOOLEAN, error \in BOOLEAN :
              /\ cmds' = cmds \o <<Cmd("getAddress", TRUE, NoParams)>>
                    \o (IF supported
                        THEN <<Cmd("setPreferredPhys", ~error, NoParams)>>
                        ELSE <<>>)
              /\ out' = out \o <<Line("DEVICE MAC ADDRESS", <<>>)>>
                    \o (IF ~supported THEN <<>>
                        ELSE IF error
                        THEN <<Line("GAP::setPreferedPhys failed", <<>>)>>
                        ELSE <<Line("Upgrade PHY to 2M", <<>>)>>)
              /\ queue' = IF supported /\ error THEN queue
                          ELSE Append(queue, ScanItem)
    /\ UNCHANGED <<phase, hostInit, scanActive, pc, adv_parser, fields, reads,
                   localname, raised>>

\* GapDemo::on_init_complete
on_init_complete ==
    /\ phase = "dispatching"
    /\ running.ev = "init_complete"
    /\ running' = Idle
    /\ IF running.error
       THEN /\ out' = Append(out, Line("Error during the initialisation", <<>>))
            /\ UNCHANGED <<cmds, queue>>
       ELSE \E supported \in BOOLEAN, error \in BOOLEAN :
              /\ cmds' = cmds \o <<Cmd("getAddress", TRUE, NoParams)>>
                    \o (IF supported
                        THEN <<Cmd("setPreferredPhys", ~error, NoParams)>>
                        ELSE <<>>)
              /\ out' = out \o <<Line("DEVICE MAC ADDRESS", <<>>)>>
                    \o (IF ~supported THEN <<>>
                        ELSE IF error
                        THEN <<Line("GAP::setPreferedPhys failed", <<>>)>>
                        ELSE <<Line("Upgrade PHY to 2M", <<>>)>>)
              /\ queue' = Append(queue, ScanItem)
    /\ UNCHANGED <<phase, hostInit, scanActive, pc, adv_parser, fields, reads,
                   localname, raised>>

\* scan without the return after setScanParameters fails
scan_noReturn ==
    /\ phase = "dispatching"
    /\ running.fn = "scan"
    /\ running' = Idle
    /\ \E error1 \in BOOLEAN, error2 \in BOOLEAN :
         /\ cmds' = cmds \o <<Cmd("setScanParameters", ~error1, ScanParams),
                               Cmd("startScan", ~error2, NoParams)>>
         /\ out' = out
               \o (IF error1
                   THEN <<Line("Error caused by Gap::setScanParameters", <<>>)>>
                   ELSE <<>>)
               \o (IF error2
                   THEN <<Line("Error caused by Gap::startScan", <<>>)>>
                   ELSE <<StartedLine>>)
         /\ scanActive' = ~error2
    /\ UNCHANGED <<phase, hostInit, queue, pc, adv_parser, fields, reads,
                   localname, raised>>

\* GapDemo::scan
scan ==
    /\ phase = "dispatching"
    /\ running.fn = "scan"
    /\ running' = Idle
    /\ \E error1 \in BOOLEAN, error2 \in BOOLEAN :
         IF error1
         THEN /\ cmds' = Append(cmds, Cmd("setScanParameters", FALSE, ScanParams))
              /\ out' = Append(out,
                    Line("Error caused by Gap::setScanParameters", <<>>))
              /\ UNCHANGED scanActive
         ELSE IF error2
         THEN /\ cmds' = cmds \o <<Cmd("setScanParameters", TRUE, ScanParams),
                                    Cmd("startScan", FALSE, NoParams)>>
              /\ out' = Append(out, Line("Error caused by Gap::startScan", <<>>))
              /\ UNCHANGED scanActive
         ELSE /\ cmds' = cmds \o <<Cmd("setScanParameters", TRUE, ScanParams),
                                    Cmd("startScan", TRUE, NoParams)>>
              /\ out' = Append(out, StartedLine)
              /\ scanActive' = TRUE
    /\ UNCHANGED <<phase, hostInit, queue, pc, adv_parser, fields, reads,
                   localname, raised>>

\* onScanTimeout that only reports the timeout
onScanTimeout_noRestart ==
    /\ phase = "dispatching"
    /\ running.ev = "timeout"
    /\ running' = Idle
    /\ out' = Append(out, Line("Stopped scanning due to timeout parameter", <<>>))
    /\ UNCHANGED <<phase, hostInit, scanActive, queue, pc, cmds, adv_parser,
                   fields, reads, localname, raised>>

\* onScanTimeout that queues scan() twice
onScanTimeout_twice ==
    /\ phase = "dispatching"
    /\ running.ev = "timeout"
    /\ running' = Idle
    /\ out' = Append(out, Line("Stopped scanning due to timeout parameter", <<>>))
    /\ queue' = queue \o <<ScanItem, ScanItem>>
    /\ UNCHANGED <<phase, hostInit, scanActive, pc, cmds, adv_parser, fields,
                   reads, localname, raised>>

\* GapDemo::onScanTimeout
onScanTimeout ==
    /\ phase = "dispatching"
    /\ running.ev = "timeout"
    /\ running' = Idle
    /\ out' = Append(out, Line("Stopped scanning due to timeout parameter", <<>>))
    /\ queue' = Append(queue, ScanItem)
    /\ UNCHANGED <<phase, hostInit, scanActive, pc, cmds, adv_parser, fields,
                   reads, localname, raised>>

\* GapDemo::onAdvertisingReport, up to the parse loop: print the summary and
\* construct the parser over the event's payload
onAdvertisingReport ==
    /\ phase = "dispatching"
    /\ running.ev = "adv"
    /\ pc = "entry"
    /\ pc' = "loop"
    /\ out' = Append(out, Line("Scan found", <<>>))
    /\ adv_parser' = [data |-> running.payload, position |-> 0]
    /\ fields' = <<>>
    /\ reads' = {}
    /\ UNCHANGED <<phase, hostInit, scanActive, queue, running, cmds,
                   localname, raised>>

\* the loop asks only whether the cursor is inside the buffer
loop_condition_cursor == adv_parser.position < Len(adv_parser.data)

\* an if in place of the while: at most one iteration
loop_condition_once == hasNext(adv_parser) /\ fields = <<>>

\* a do-while: the body runs once before hasNext is asked
loop_condition_dowhile == hasNext(adv_parser) \/ fields = <<>>

\* while (adv_parser.hasNext())
loop_condition == hasNext(adv_parser)

\* one iteration of  while (adv_parser.hasNext()) { field = next(); ... }
onAdvertisingReport_field ==
    /\ phase = "dispatching"
    /\ running.ev = "adv"
    /\ pc = "loop"
    /\ loop_condition
    /\ \E g \in GarbageBytes :
         LET field == next(adv_parser, g) IN
         /\ adv_parser' = advance(adv_parser, g)
         /\ fields' = Append(fields, field)
         /\ reads' = reads \cup hasNextReads(adv_parser) \cup nextReads(adv_parser)
         /\ localname' = IF IsName(field.type)
                         THEN NameCopy(adv_parser.data, field, g) ELSE localname
         /\ \E outcome \in NameOutcomes(adv_parser.data, field, g) :
              /\ out' = out \o FieldLines(adv_parser.data, field, g, outcome)
              /\ phase' = IF IsName(field.type) /\ outcome = "fault"
                          THEN "crashed" ELSE phase
    /\ UNCHANGED <<hostInit, scanActive, queue, running, pc, cmds, raised>>

\* the loop ends when hasNext() is false, and the handler returns
onAdvertisingReport_end ==
    /\ phase = "dispatching"
    /\ running.ev = "adv"
    /\ pc = "loop"
    /\ ~loop_condition
    /\ reads' = reads \cup hasNextReads(adv_parser)
    /\ running' = Idle
    /\ UNCHANGED <<phase, hostInit, scanActive, queue, pc, cmds, out,
                   adv_parser, fields, localname, raised>>

Next ==
    \/ run
    \/ HostInitComplete
    \/ HostAdvertisingReport
    \/ HostScanTimeout
    \/ dispatch_forever
    \/ on_init_complete
    \/ scan
    \/ onScanTimeout
    \/ onAdvertisingReport
    \/ onAdvertisingReport_field
    \/ onAdvertisingReport_end

Spec == Init /\ [][Next]_vars

\* ------------------- the controller when the host stack also signals
\* connections and disconnections
\* the host stack reports that a connection has been established
HostConnectionComplete ==
    /\ phase = "dispatching"
    /\ hostInit = "done"
    /\ raised.conn < MaxConnections
    /\ raised.disconn = raised.conn
    /\ raised' = [raised EXCEPT !.conn = @ + 1]
    /\ schedule_ble_events(ConnectionItem)
    /\ UNCHANGED <<phase, hostInit, scanActive, running, pc, cmds, out,
                   adv_parser, fields, reads, localname>>

\* the host stack reports that the connection has ended
HostDisconnectionComplete ==
    /\ phase = "dispatching"
    /\ raised.disconn < raised.conn
    /\ raised' = [raised EXCEPT !.disconn = @ + 1]
    /\ schedule_ble_events(DisconnectionItem)
    /\ UNCHANGED <<phase, hostInit, scanActive, running, pc, cmds, out,
                   adv_parser, fields, reads, localname>>

\* a handler that ends the connection as soon as it is established
onConnectionComplete_disconnect ==
    /\ phase = "dispatching"
    /\ running.ev = "connection"
    /\ running' = Idle
    /\ cmds' = Append(cmds, Cmd("disconnect", TRUE, NoParams))
    /\ UNCHANGED <<phase, hostInit, scanActive, queue, pc, out, adv_parser,
                   fields, reads, localname, raised>>

\* GapDemo::onConnectionComplete: an empty body
onConnectionComplete ==
    /\ phase = "dispatching"
    /\ running.ev = "connection"
    /\ running' = Idle
    /\ UNCHANGED <<phase, hostInit, scanActive, queue, pc, cmds, out,
                   adv_parser, fields, reads, localname, raised>>

\* GapDemo::onDisconnectionComplete: print a line
onDisconnectionComplete ==
    /\ phase = "dispatching"
    /\ running.ev = "disconnection"
    /\ running' = Idle
    /\ out' = Append(out, Line("Disconnected", <<>>))
    /\ UNCHANGED <<phase, hostInit, scanActive, queue, pc, cmds, adv_parser,
                   fields, reads, localname, raised>>

\* the scan lifecycle together with the connection events; advertising
\* reports, which issue no command and queue no work, are left to Spec
NextConn ==
    \/ run
    \/ HostInitComplete
    \/ HostScanTimeout
    \/ HostConnectionComplete
    \/ HostDisconnectionComplete
    \/ dispatch_forever
    \/ on_init_complete
    \/ scan
    \/ onScanTimeout
    \/ onConnectionComplete
    \/ onDisconnectionComplete

SpecConn == Init /\ [][NextConn]_vars

\* ------------------- the controller when the host stack's scan commands
\* succeed and the event queue is dispatched fairly
\* scan() when setScanParameters and startScan both succeed
scan_succeeds == scan /\ scanActive'

NextLive ==
    \/ run
    \/ HostInitComplete
    \/ HostAdvertisingReport
    \/ HostScanTimeout
    \/ dispatch_forever
    \/ on_init_complete
    \/ scan_succeeds
    \/ onScanTimeout
    \/ onAdvertisingReport
    \/ onAdvertisingReport_field
    \/ onAdvertisingReport_end

\* dispatch_forever keeps taking work items, and a handler it called runs on
Fairness ==
    /\ WF_vars(dispatch_forever)
    /\ WF_vars(on_init_complete)
    /\ WF_vars(scan_succeeds)
    /\ WF_vars(onScanTimeout)
    /\ WF_vars(onAdvertisingReport)
    /\ WF_vars(onAdvertisingReport_field)
    /\ WF_vars(onAdvertisingReport_end)

SpecLive == Init /\ [][NextLive]_vars /\ Fairness

\* ------------------------------- one advertising report, any payload
\* the controller is scanning and the report's work item has just been taken
\* off the queue
ScanningState ==
    /\ phase = "dispatching"
    /\ hostInit = "done"
    /\ scanActive = TRUE
    /\ queue = <<>>
    /\ pc = "entry"
    /\ cmds = <<Cmd("setEventHandler", TRUE, NoParams),
                Cmd("init", TRUE, NoParams),
                Cmd("getAddress", TRUE, NoParams),
                Cmd("setScanParameters", TRUE, ScanParams),
                Cmd("startScan", TRUE, NoParams)>>
    /\ out = <<Line("DEVICE MAC ADDRESS", <<>>), StartedLine>>
    /\ adv_parser = [data |-> <<>>, position |-> 0]
    /\ fields = <<>>
    /\ reads = {}
    /\ localname = [written |-> 0, terminated |-> TRUE]
    /\ raised = [adv |-> 1, timeout |-> 0, conn |-> 0, disconn |-> 0]

NextReport ==
    \/ onAdvertisingReport
    \/ onAdvertisingReport_field
    \/ onAdvertisingReport_end

InitParser ==
    /\ ScanningState
    /\ \E payload \in SmallPayloads \cup {DemoPayload} : running = AdvItem(payload)

SpecParser == InitParser /\ [][NextReport]_vars

InitField ==
    /\ ScanningState
    /\ \E payload \in FieldPayloads : running = AdvItem(payload)

SpecField == InitField /\ [][NextReport]_vars

InitName ==
    /\ ScanningState
    /\ \E payload \in NamePayloads : running = AdvItem(payload)

SpecName == InitName /\ [][NextReport]_vars

\* =================================================================
\* Properties of the advertising data parser (SpecParser)
\* =================================================================
\* the handler of the report has returned
ReportDone == running = Idle /\ pc = "loop"

\* a whole record starts at offset c of d: a length byte L >= 1, a type byte
\* and L - 1 value bytes, all inside d
RecordAt(d, c) == \E n \in 2..(Len(d) - c) : d[c + 1] + 1 = n

\* the whole records of d from offset c on, as a reference decoder reads them
RECURSIVE Records(_, _)
Records(d, c) ==
    IF RecordAt(d, c)
    THEN <<[type |-> d[c + 2], off |-> c + 2, len |-> d[c + 1] - 1]>>
            \o Records(d, c + 1 + d[c + 1])
    ELSE <<>>

\* the offset just past the whole records of d
RecordsEnd(d) ==
    LET r == Records(d, 0)
    IN  IF r = <<>> THEN 0 ELSE r[Len(r)].off + r[Len(r)].len

\* d is a concatenation of whole records
ValidBuffer(d) == RecordsEnd(d) = Len(d)

\* d is whole records followed by a record cut short: its length byte is
\* there and declares more bytes than remain
TruncatedBuffer(d) ==
    LET c == RecordsEnd(d)
    IN  c < Len(d) /\ d[c + 1] >= 1 /\ c + 1 + d[c + 1] > Len(d)

\* length prefix, type and value of the fields, concatenated in order
RECURSIVE Encode(_, _)
Encode(d, fs) ==
    IF fs = <<>> THEN <<>>
    ELSE <<Head(fs).len + 1, Head(fs).type>> \o Value(d, Head(fs), 0)
            \o Encode(d, Tail(fs))

\* the fields' spans follow one another from offset 0 with no gap or overlap
Contiguous(fs) ==
    \A k \in 1..Len(fs) :
        fs[k].off = 2 + (IF k = 1 THEN 0 ELSE fs[k - 1].off + fs[k - 1].len)

ErrorLines ==
    {i \in 1..Len(out) : out[i].l \in
        {"Error returned by BLE::init", "Error during the initialisation",
         "Error caused by Gap::setScanParameters",
         "Error caused by Gap::startScan"}}

\* C1: for every payload the parser reads no index outside the payload:
\* every index hasNext and next read is inside [0, length), and every field
\* yielded has its length byte, type byte and value bytes inside the payload.
C1_ParserReadsInBounds ==
    /\ \A i \in reads : 0 <= i /\ i < Len(adv_parser.data)
    /\ \A k \in 1..Len(fields) :
         /\ 0 <= fields[k].off - 2
         /\ fields[k].off - 1 < Len(adv_parser.data)
         /\ fields[k].len >= 0
         /\ fields[k].off + fields[k].len <= Len(adv_parser.data)

\* a parse that yielded a field and stopped before the end of the payload
C1_Witness ==
    /\ ReportDone
    /\ Len(fields) >= 1
    /\ adv_parser.position < Len(adv_parser.data)
    /\ adv_parser.position \in reads

\* C2: on a buffer whose final record is cut short, the parser yields exactly
\* the whole records before the cut, in order, and then terminates without
\* an error; once hasNext is false it stays false.
C2_TruncatedYieldsWholeRecords ==
    /\ [](ReportDone /\ TruncatedBuffer(adv_parser.data) =>
            /\ fields = Records(adv_parser.data, 0)
            /\ adv_parser.position = RecordsEnd(adv_parser.data)
            /\ ~hasNext(adv_parser)
            /\ ErrorLines = {}
            /\ phase = "dispatching")
    /\ [][pc = "loop" /\ ~hasNext(adv_parser) => ~hasNext(adv_parser')]_vars

\* a finished parse of a truncated buffer that yielded a field
C2_Witness ==
    /\ ReportDone
    /\ TruncatedBuffer(adv_parser.data)
    /\ Len(fields) >= 1

\* C3: on a valid buffer the fields yielded, re-encoded as length prefix,
\* type and value and concatenated in order, are the buffer itself, and
\* their spans cover it with no byte skipped or yielded twice.
C3_RoundTrip ==
    ReportDone /\ ValidBuffer(adv_parser.data) =>
        /\ Encode(adv_parser.data, fields) = adv_parser.data
        /\ Contiguous(fields)
        /\ adv_parser.position = Len(adv_parser.data)

\* a finished parse of a valid buffer of two records
C3_Witness ==
    /\ ReportDone
    /\ ValidBuffer(adv_parser.data)
    /\ Len(fields) = 2

\* C4: at every cursor position the parser reaches, hasNext is true iff a
\* whole record starts at the cursor; a length byte 0, or a record that
\* would end past the buffer, makes it false even if more bytes follow.
C4_HasNextIffRecordRemains ==
    pc = "loop" =>
        /\ hasNext(adv_parser) = RecordAt(adv_parser.data, adv_parser.position)
        /\ adv_parser.position <= Len(adv_parser.data)

\* the cursor is past a yielded field, bytes follow it, and hasNext is false
C4_Witness ==
    /\ pc = "loop"
    /\ Len(fields) >= 1
    /\ adv_parser.position + 1 < Len(adv_parser.data)
    /\ ~hasNext(adv_parser)

\* =================================================================
\* Properties of the scan controller (Spec)
\* =================================================================
CmdsWhere(c, oks) == {i \in 1..Len(cmds) : cmds[i].c = c /\ cmds[i].ok \in oks}
LinesWhere(l) == {i \in 1..Len(out) : out[i].l = l}

\* scan() calls queued or in progress
PendingScans ==
    Cardinality({i \in 1..Len(queue) : queue[i].fn = "scan"})
        + (IF running.fn = "scan" THEN 1 ELSE 0)

\* scan-timeout callbacks that have run
TimeoutsHandled ==
    Cardinality(LinesWhere("Stopped scanning due to timeout parameter"))

\* successful init-complete callbacks that have run
InitsCompleted == Cardinality(LinesWhere("DEVICE MAC ADDRESS"))

ScanCmds == {"setScanParameters", "startScan"}

\* C5 as stated: once the scan() calls that scan timeouts queued have run,
\* every timeout handled has been followed by exactly one start-scan
\* command, and every set-scan-parameters command carried the configured
\* parameters.
C5_OneStartScanPerTimeout ==
    TimeoutsHandled >= 1 /\ PendingScans = 0 =>
        /\ Cardinality(CmdsWhere("startScan", BOOLEAN)) = 1 + TimeoutsHandled
        /\ \A i \in CmdsWhere("setScanParameters", BOOLEAN) :
                cmds[i].params = ScanParams

\* C5 amended: each scan-timeout callback queues exactly one scan() call;
\* each scan() call issues exactly one set-scan-parameters command, carrying
\* the configured parameters, and exactly one start-scan command if that
\* command succeeded and none if it failed.
C5_OneScanCallPerTimeout ==
    /\ Cardinality(CmdsWhere("setScanParameters", BOOLEAN)) + PendingScans
            = InitsCompleted + TimeoutsHandled
    /\ Cardinality(CmdsWhere("startScan", BOOLEAN))
            = Cardinality(CmdsWhere("setScanParameters", {TRUE}))
    /\ \A i \in CmdsWhere("setScanParameters", BOOLEAN) :
            cmds[i].params = ScanParams

\* a timeout was handled and the scan() call it queued restarted the scan
C5_Witness ==
    /\ TimeoutsHandled = 1
    /\ PendingScans = 0
    /\ Cardinality(CmdsWhere("startScan", {TRUE})) = 2
    /\ scanActive

\* C6: at most one scan() call is queued or in progress, none while the host
\* stack is scanning, and no set-scan-parameters or start-scan command is
\* issued while the host stack is scanning.
C6_OneScanSession ==
    /\ [](PendingScans <= 1 /\ (PendingScans = 1 => ~scanActive))
    /\ [][(Len(cmds') > Len(cmds) /\ cmds'[Len(cmds')].c \in ScanCmds)
            => ~scanActive]_vars

\* scanning again after a timeout, with a report waiting in the queue
C6_Witness ==
    /\ scanActive
    /\ TimeoutsHandled >= 1
    /\ queue # <<>>
    /\ PendingScans = 0

\* the initialisation has failed: in run(), or in the init-complete event
InitFailed ==
    \/ CmdsWhere("init", {FALSE}) # {}
    \/ \E i \in 1..Len(queue) : queue[i] = InitCompleteItem(TRUE)
    \/ running = InitCompleteItem(TRUE)
    \/ LinesWhere("Error during the initialisation") # {}

\* C7: after a failed initialisation the error is reported once its handler
\* has run, no PHY preference, set-scan-parameters or start-scan command is
\* issued, no scan() is queued, and the initialisation is not requested again.
C7_InitFailureHalts ==
    InitFailed =>
        /\ \A i \in 1..Len(cmds) :
                cmds[i].c \notin ScanCmds \cup {"setPreferredPhys"}
        /\ PendingScans = 0
        /\ ~scanActive
        /\ Cardinality(CmdsWhere("init", BOOLEAN)) = 1
        /\ CmdsWhere("init", {FALSE}) # {} =>
                /\ LinesWhere("Error returned by BLE::init") # {}
                /\ phase = "returned"
        /\ (CmdsWhere("init", {TRUE}) # {} /\ running = Idle /\ queue = <<>>) =>
                Cardinality(LinesWhere("Error during the initialisation")) = 1

\* the init-complete callback has run with an error
C7_Witness ==
    /\ LinesWhere("Error during the initialisation") # {}
    /\ running = Idle
    /\ queue = <<>>

\* the last scan command issued failed
LastScanCmdFailed ==
    /\ cmds # <<>>
    /\ cmds[Len(cmds)].c \in ScanCmds
    /\ ~cmds[Len(cmds)].ok

TimeoutWaiting ==
    \/ running = TimeoutItem
    \/ \E i \in 1..Len(queue) : queue[i] = TimeoutItem

\* C8: a failed set-scan-parameters command is not followed by a start-scan
\* command; after a scan command failed the host stack is not scanning, no
\* scan() is queued unless a scan timeout arrived, and every failure is
\* reported.
C8_ScanFailureNotRetried ==
    /\ \A i \in CmdsWhere("setScanParameters", {FALSE}) :
            i < Len(cmds) => cmds[i + 1].c # "startScan"
    /\ LastScanCmdFailed => ~scanActive
    /\ (LastScanCmdFailed /\ ~TimeoutWaiting) => PendingScans = 0
    /\ Cardinality(LinesWhere("Error caused by Gap::setScanParameters"))
            = Cardinality(CmdsWhere("setScanParameters", {FALSE}))
    /\ Cardinality(LinesWhere("Error caused by Gap::startScan"))
            = Cardinality(CmdsWhere("startScan", {FALSE}))

\* the scan() call a timeout queued failed to set the scan parameters
C8_Witness ==
    /\ LastScanCmdFailed
    /\ cmds[Len(cmds)].c = "setScanParameters"
    /\ TimeoutsHandled >= 1
    /\ running = Idle

\* =================================================================
\* Properties of the field dispatch
\* =================================================================
\* the name line the last loop iteration printed, if it printed one
LastLineIsName ==
    /\ out # <<>>
    /\ out[Len(out)].l \in {"Short Name", "Complete Name"}

\* C9: for every name field the parser yields, at most 127 value bytes are
\* copied into localname, nothing is written past it, it is terminated when
\* printed, and for a value of at most 127 bytes the string printed is the
\* value.
C9_NameCopyBounded ==
    (fields # <<>> /\ IsName(fields[Len(fields)].type)) =>
        /\ localname.written <= NameBufSize - 1
        /\ localname.terminated
        /\ phase # "crashed"
        /\ fields[Len(fields)].len <= NameBufSize - 1 =>
                /\ LastLineIsName
                /\ out[Len(out)].a
                        = Value(adv_parser.data, fields[Len(fields)], 0)

\* a step of onAdvertisingReport: the handler is in progress and what it
\* owns changes
ReportStep ==
    /\ running.ev = "adv"
    /\ <<running, pc, out, adv_parser, fields, reads, localname>>'
            # <<running, pc, out, adv_parser, fields, reads, localname>>

\* C10: a step of onAdvertisingReport issues no host-stack command, queues
\* no work and leaves the scan lifecycle state as it was.
C10_ReportOnlyReports ==
    [][ReportStep => UNCHANGED <<cmds, queue, scanActive, phase, hostInit>>]_vars

\* =================================================================
\* Properties of the event queue and of the initialisation (Spec)
\* =================================================================
\* C11: handlers run one at a time and each to completion: a handler starts
\* only as the work item at the head of the queue and only when no handler is
\* in progress, a handler in progress is never replaced by another, and
\* commands and output are produced only by run() or by the handler in
\* progress.
C11_HandlersSerialised ==
    /\ [][running # Idle => running' \in {running, Idle}]_vars
    /\ [][(running = Idle /\ running' # Idle) =>
            /\ queue # <<>>
            /\ running' = Head(queue)
            /\ queue' = Tail(queue)]_vars
    /\ [][(cmds' # cmds \/ out' # out) =>
            (running # Idle \/ phase = "constructed")]_vars

\* a handler is in progress while another work item waits in the queue
C11_Witness ==
    /\ running # Idle
    /\ queue # <<>>
    /\ phase = "dispatching"

\* C12: a successful init-complete callback queues exactly one scan() call
\* whether setPreferredPhys succeeds, fails or is not issued.
C12_PhyFailureNotFatal ==
    /\ [][(running = InitCompleteItem(FALSE) /\ running' = Idle) =>
            queue' = Append(queue, ScanItem)]_vars
    /\ [](InitsCompleted >= 1 =>
            Cardinality(CmdsWhere("setScanParameters", BOOLEAN)) + PendingScans
                >= 1)

\* setPreferredPhys failed and the scan() call queued after it started the scan
C12_Witness ==
    /\ LinesWhere("GAP::setPreferedPhys failed") # {}
    /\ CmdsWhere("setPreferredPhys", {FALSE}) # {}
    /\ scanActive

\* =================================================================
\* Further properties of the parse loop (SpecParser)
\* =================================================================
\* C13: on the payload 02 01 06 05 09 44 65 6D 6F the parser yields exactly
\* two fields, flags with value 06 and then complete local name with value
\* 44 65 6D 6F, and hasNext is false after the second.
C13_DemoPayloadFields ==
    (pc = "loop" /\ adv_parser.data = DemoPayload) =>
        /\ Len(fields) <= 2
        /\ Len(fields) = 2 => ~hasNext(adv_parser)
        /\ ReportDone =>
            /\ Len(fields) = 2
            /\ fields[1].type = FLAGS
            /\ Value(adv_parser.data, fields[1], 0) = <<6>>
            /\ fields[2].type = COMPLETE_LOCAL_NAME
            /\ Value(adv_parser.data, fields[2], 0) = <<68, 101, 109, 111>>

\* the parse of that payload has finished
C13_Witness ==
    /\ ReportDone
    /\ adv_parser.data = DemoPayload
    /\ Len(fields) = 2

\* C15: on a zero-length payload hasNext is false on the fresh parser, no
\* field is yielded, the parser reads nothing, and the handler prints the
\* summary and no field line.
C15_EmptyPayload ==
    (pc = "loop" /\ adv_parser.data = <<>>) =>
        /\ ~hasNext(adv_parser)
        /\ fields = <<>>
        /\ reads = {}
        /\ out[Len(out)].l = "Scan found"

\* the report with the zero-length payload has been handled
C15_Witness ==
    /\ ReportDone
    /\ adv_parser.data = <<>>
    /\ out[Len(out)].l = "Scan found"

\* C19: the parse loop is bounded: the cursor never exceeds the payload
\* length n, each iteration moves it forward by at least 2, and at most
\* n / 2 fields are yielded before hasNext is false.
C19_ParseLoopBounded ==
    /\ [](pc = "loop" =>
            /\ adv_parser.position <= Len(adv_parser.data)
            /\ 2 * Len(fields) <= adv_parser.position
            /\ Len(fields) <= Len(adv_parser.data) \div 2
            /\ ReportDone => ~hasNext(adv_parser))
    /\ [][(pc = "loop" /\ adv_parser'.position # adv_parser.position) =>
            /\ adv_parser'.position >= adv_parser.position + 2
            /\ Len(fields') = Len(fields) + 1]_vars

\* a parse that ran the largest number of iterations its payload allows
C19_Witness ==
    /\ ReportDone
    /\ Len(fields) = 2
    /\ Len(adv_parser.data) \in {4, 5}

\* =================================================================
\* Properties of the field dispatch over every tag (SpecField)
\* =================================================================
\* the last field the loop yielded
LastField == fields[Len(fields)]

\* bit m of byte b, read off the remainder
HasBit(b, m) == b % (2 * m) >= m

InSeq(x, sq) == \E i \in 1..Len(sq) : sq[i] = x

\* C14: a flags field is decoded from its value byte as a bitfield: each of
\* the five flags is printed iff its bit is set, each at most once, and the
\* value byte 06 prints general-discoverable and BR/EDR-not-supported only.
C14_FlagsDecoded ==
    (pc = "loop" /\ fields # <<>> /\ LastField.type = FLAGS
            /\ LastField.len >= 1) =>
        LET b == Value(adv_parser.data, LastField, 0)[1]
            printed == out[Len(out)]
        IN  /\ printed.l = "Flags"
            /\ \A m \in {LE_LIMITED_DISCOVERABLE, LE_GENERAL_DISCOVERABLE,
                          BREDR_NOT_SUPPORTED, SIMULTANEOUS_LE_BREDR_C,
                          SIMULTANEOUS_LE_BREDR_H} :
                    InSeq(m, printed.a) <=> HasBit(b, m)
            /\ \A i, j \in 1..Len(printed.a) :
                    printed.a[i] = printed.a[j] => i = j
            /\ b = 6 => printed.a =
                    <<LE_GENERAL_DISCOVERABLE, BREDR_NOT_SUPPORTED>>

\* the flags record with value byte 06 has been reported
C14_Witness ==
    /\ ReportDone
    /\ adv_parser.data = <<2, FLAGS, 6>>
    /\ out[Len(out)] = Line("Flags",
            <<LE_GENERAL_DISCOVERABLE, BREDR_NOT_SUPPORTED>>)

\* C18: every index the field dispatch reads from field.value is less than
\* field.value.size().
C18_DispatchReadsInsideValue ==
    \A k \in 1..Len(fields) :
        \A i \in ValueReads(fields[k]) : i < fields[k].len

\* the type a printed line names
LabelType(l) ==
    CASE l = "Flags" -> FLAGS
      [] l = "Incomplete List of 16bit Service IDs" ->
            INCOMPLETE_LIST_16BIT_SERVICE_IDS
      [] l = "Complete List of 16bit Service IDs" ->
            COMPLETE_LIST_16BIT_SERVICE_IDS
      [] l = "Incomplete List of 32bit Service IDs" ->
            INCOMPLETE_LIST_32BIT_SERVICE_IDS
      [] l = "Complete List of 32bit Service IDs" ->
            COMPLETE_LIST_32BIT_SERVICE_IDS
      [] l = "Incomplete List of 128bit Service IDs" ->
            INCOMPLETE_LIST_128BIT_SERVICE_IDS
      [] l = "Complete List of 128bit Service IDs" ->
            COMPLETE_LIST_128BIT_SERVICE_IDS
      [] l = "Short Name" -> SHORTENED_LOCAL_NAME
      [] l = "Complete Name" -> COMPLETE_LOCAL_NAME
      [] l = "Advertised TX Power Level" -> TX_POWER_LEVEL
      [] l = "Device ID" -> DEVICE_ID
      [] l = "Has SLAVE_CONNECTION_INTERVAL_RANGE" ->
            SLAVE_CONNECTION_INTERVAL_RANGE
      [] l = "Has LIST_16BIT_SOLICITATION_IDS" -> LIST_16BIT_SOLICITATION_IDS
      [] l = "Has LIST_128BIT_SOLICITATION_IDS" -> LIST_128BIT_SOLICITATION_IDS
      [] l = "Has service data" -> SERVICE_DATA
      [] l = "Has SERVICE_DATA_128BIT_ID" -> SERVICE_DATA_128BIT_ID
      [] l = "Appearance" -> APPEARANCE
      [] l = "Has ADVERTISING_INTERVAL" -> ADVERTISING_INTERVAL
      [] l = "Has MANUFACTURER_SPECIFIC_DATA" -> MANUFACTURER_SPECIFIC_DATA
      [] OTHER -> -1

\* the lines printed since the summary of the report being handled
ReportLines ==
    LET summaries == LinesWhere("Scan found")
        last == CHOOSE i \in summaries : \A j \in summaries : j <= i
    IN  SubSeq(out, last + 1, Len(out))

\* the fields yielded whose tag the chain tests, in payload order
RecognizedFields == SelectSeq(fields, LAMBDA f : f.type \in RecognizedTypes)

\* C20: a report prints its summary and then exactly one line per yielded
\* field of a recognized type, in payload order, each naming that field's
\* type; fields of other types print nothing and do not end the loop.
C20_OneLinePerRecognizedField ==
    pc = "loop" =>
        /\ Len(ReportLines) = Len(RecognizedFields)
        /\ \A k \in 1..Len(ReportLines) :
                LabelType(ReportLines[k].l) = RecognizedFields[k].type
        /\ ReportDone => fields = Records(adv_parser.data, 0)

\* =================================================================
\* Order of the scan commands (Spec) and continuity of scanning (SpecLive)
\* =================================================================
\* C16: no set-scan-parameters or start-scan command is issued before a
\* successful init-complete has been delivered and handled, and every
\* start-scan command directly follows, in the same scan() invocation, a
\* set-scan-parameters command that succeeded.
C16_ScanCommandOrder ==
    /\ [](\A i \in 1..Len(cmds) : cmds[i].c \in ScanCmds =>
            /\ hostInit = "done"
            /\ InitsCompleted >= 1
            /\ \E j \in CmdsWhere("getAddress", {TRUE}) : j < i)
    /\ [](\A i \in CmdsWhere("startScan", BOOLEAN) :
            /\ i > 1
            /\ cmds[i - 1] = Cmd("setScanParameters", TRUE, ScanParams))
    /\ [][(Len(cmds') > Len(cmds) /\ cmds'[Len(cmds')].c = "startScan") =>
            /\ running.fn = "scan"
            /\ Len(cmds') = Len(cmds) + 2]_vars

\* the first scan() call has started the scan
C16_Witness ==
    /\ CmdsWhere("startScan", {TRUE}) # {}
    /\ scanActive
    /\ TimeoutsHandled = 0

\* C17: after a successful init-complete, when the queue is dispatched
\* fairly and scan commands succeed, whenever the host stack is not scanning
\* it is eventually scanning again.
C17_ScanningResumes ==
    (InitsCompleted >= 1 /\ ~scanActive) ~> scanActive

\* =================================================================
\* The scan parameters applied and the confirmation printed (Spec)
\* =================================================================
\* a PHY configuration has its window inside its interval and is passive
PassiveAndWindowed(conf) == conf.window <= conf.interval /\ ~conf.active

\* C21: every set-scan-parameters command carries parameters in which each
\* configured PHY has scan window <= scan interval and passive scanning.
C21_ParametersWellFormed ==
    \A i \in CmdsWhere("setScanParameters", BOOLEAN) :
        /\ cmds[i].params.phy1m \/ cmds[i].params.phyCoded
        /\ cmds[i].params.phy1m => PassiveAndWindowed(cmds[i].params.oneM)
        /\ cmds[i].params.phyCoded => PassiveAndWindowed(cmds[i].params.coded)

\* the parameters have been applied in a second scan session
C21_Witness ==
    /\ Cardinality(CmdsWhere("setScanParameters", {TRUE})) = 2
    /\ TimeoutsHandled = 1

\* the indices of a set of indices, in increasing order
RECURSIVE Sorted(_)
Sorted(S) ==
    IF S = {} THEN <<>>
    ELSE LET m == CHOOSE i \in S : \A j \in S : i <= j
         IN  <<m>> \o Sorted(S \ {m})

\* C22: the scan start confirmation is printed only by a scan() call whose
\* set-scan-parameters and start-scan both succeeded, and the 1M interval
\* and window it reports are those of the parameters that call applied.
C22_ConfirmationReportsApplied ==
    LET started == Sorted(CmdsWhere("startScan", {TRUE}))
        lines == Sorted(LinesWhere("Scanning started"))
    IN  /\ Len(lines) = Len(started)
        /\ \A k \in 1..Len(lines) :
                LET applied == cmds[started[k] - 1].params
                IN  out[lines[k]].a = <<valueInMs(applied.oneM.interval),
                                        valueInMs(applied.oneM.window)>>

\* =================================================================
\* The 16-bit service-ID lists (SpecField)
\* =================================================================
\* C23: for a 16-bit service-ID list whose value holds k two-byte IDs the
\* line lists exactly k IDs, and the i-th ID printed is value byte 2i+1
\* followed by value byte 2i, for every i in 0..k-1.
C23_ServiceIdsListed ==
    (pc = "loop" /\ fields # <<>>
            /\ LastField.type \in {INCOMPLETE_LIST_16BIT_SERVICE_IDS,
                                   COMPLETE_LIST_16BIT_SERVICE_IDS}
            /\ LastField.len % 2 = 0) =>
        LET value == Value(adv_parser.data, LastField, 0)
            printed == out[Len(out)]
            k == LastField.len \div 2
        IN  /\ printed.l = IF LastField.type = INCOMPLETE_LIST_16BIT_SERVICE_IDS
                           THEN "Incomplete List of 16bit Service IDs"
                           ELSE "Complete List of 16bit Service IDs"
            /\ Len(printed.a) = 2 * k
            /\ \A i \in 0..(k - 1) :
                    /\ printed.a[2 * i + 1] = value[2 * i + 2]
                    /\ printed.a[2 * i + 2] = value[2 * i + 1]

\* =================================================================
\* Connection events (SpecConn)
\* =================================================================
\* the commands that establish or end a connection
ConnectCmds == {i \in 1..Len(cmds) : cmds[i].c \in {"connect", "disconnect"}}

====
